---- MODULE Spec2Model ----
(***************************************************************************)
(* Contact-form submission processor (lambdas/shared/handlers_manager.py)  *)
(* and its helpers (lambdas/shared/utils.py).                              *)
(*                                                                         *)
(* Python strings that the code inspects (strip, slice, replace, lower,    *)
(* substring search, concatenation) are sequences of one-character         *)
(* strings.  Strings that are only passed around (the localized messages   *)
(* and labels) are TLA+ strings.                                           *)
(***************************************************************************)
EXTENDS Integers, Sequences, FiniteSets, TLC

VARIABLES
    pc,        \* per invocation: position in process_contact_form_submission
    event,     \* per invocation: the API Gateway event
    locals,    \* per invocation: local variables of the handler
    response,  \* per invocation: the value returned to the caller
    exc,       \* per invocation: exception in flight / escaped ("" = none)
    putCalls,  \* per invocation: number of table.put_item calls made
    sesCalls,  \* per invocation: number of ses.send_email calls made
    store,     \* the DynamoDB table: set of items, unique per (pk, sk)
    outbox,    \* e-mails accepted by SES
    logs,      \* lines printed
    clock,     \* index of the current instant of datetime.now
    fn,        \* helper call: which helper is applied
    arg,       \* helper call: its argument
    ret,       \* helper call: its result
    called     \* helper call: whether the helper has been applied

hvars == <<pc, event, locals, response, exc, putCalls, sesCalls, store, outbox, logs, clock>>
uvars == <<fn, arg, ret, called>>
vars == <<pc, event, locals, response, exc, putCalls, sesCalls, store, outbox, logs, clock,
          fn, arg, ret, called>>

----------------------------------------------------------------------------
(* Characters and Python str operations *)

\* the character U+0000
NUL == "NUL"

\* characters removed by str.strip() (those of Python's whitespace that the
\* inputs of this model use)
Whitespace == {" ", "\t", "\n", "\r", "\f"}

UpperLetters == <<"A","B","C","D","E","F","G","H","I","J","K","L","M",
                  "N","O","P","Q","R","S","T","U","V","W","X","Y","Z">>
LowerLetters == <<"a","b","c","d","e","f","g","h","i","j","k","l","m",
                  "n","o","p","q","r","s","t","u","v","w","x","y","z">>

lower_char(c) ==
    IF \E i \in 1..26 : UpperLetters[i] = c
    THEN LowerLetters[CHOOSE i \in 1..26 : UpperLetters[i] = c]
    ELSE c

upper_char(c) ==
    IF \E i \in 1..26 : LowerLetters[i] = c
    THEN UpperLetters[CHOOSE i \in 1..26 : LowerLetters[i] = c]
    ELSE c

\* str.lower()
lower(s) == [i \in 1..Len(s) |-> lower_char(s[i])]

\* str.upper()
upper(s) == [i \in 1..Len(s) |-> upper_char(s[i])]

\* str.strip(): drop leading and trailing whitespace
strip(s) ==
    IF \A i \in 1..Len(s) : s[i] \in Whitespace
    THEN <<>>
    ELSE LET first == CHOOSE i \in 1..Len(s) :
                          s[i] \notin Whitespace /\ \A j \in 1..(i - 1) : s[j] \in Whitespace
             last  == CHOOSE i \in 1..Len(s) :
                          s[i] \notin Whitespace /\ \A j \in (i + 1)..Len(s) : s[j] \in Whitespace
         IN  SubSeq(s, first, last)

\* s[:n]
slice_to(s, n) == SubSeq(s, 1, IF Len(s) < n THEN Len(s) ELSE n)

\* s.replace(c, "") for a single character c
remove_char(s, c) == SelectSeq(s, LAMBDA x : x # c)

\* needle in hay
contains(needle, hay) ==
    \E i \in 0..(Len(hay) - Len(needle)) : SubSeq(hay, i + 1, i + Len(needle)) = needle

----------------------------------------------------------------------------
(* lambdas/shared/utils.py *)

\* default of the max_length parameter of sanitize_input
DEFAULT_MAX_LENGTH == 2000

TRUNCATION_MARKER == <<".", ".", ".">>

\* sanitize_input cutting one character short: cleaned[:max_length - 1]
sanitize_input_short_slice(text, max_length) ==
    LET cleaned   == strip(text)
        truncated == IF Len(cleaned) > max_length
                     THEN slice_to(cleaned, max_length - 1) \o TRUNCATION_MARKER
                     ELSE cleaned
    IN  remove_char(truncated, NUL)

\* sanitize_input with the length comparison inverted
sanitize_input_inverted(text, max_length) ==
    LET cleaned   == strip(text)
        truncated == IF Len(cleaned) < max_length
                     THEN slice_to(cleaned, max_length) \o TRUNCATION_MARKER
                     ELSE cleaned
    IN  remove_char(truncated, NUL)

\* sanitize_input without the removal of null characters
sanitize_input_keep_nulls(text, max_length) ==
    LET cleaned == strip(text)
    IN  IF Len(cleaned) > max_length
        THEN slice_to(cleaned, max_length) \o TRUNCATION_MARKER
        ELSE cleaned

\* sanitize_input appending the marker without cutting
sanitize_input_no_slice(text, max_length) ==
    LET cleaned   == strip(text)
        truncated == IF Len(cleaned) > max_length
                     THEN cleaned \o TRUNCATION_MARKER
                     ELSE cleaned
    IN  remove_char(truncated, NUL)

sanitize_input(text, max_length) ==
    LET cleaned   == strip(text)
        truncated == IF Len(cleaned) > max_length
                     THEN slice_to(cleaned, max_length) \o TRUNCATION_MARKER
                     ELSE cleaned
    IN  remove_char(truncated, NUL)

MARKER_EN == <<"c","o","n","s","t","r","u","c","t","i","o","n",".">>
MARKER_DE == <<"b","a","u",".">>
MARKER_RO == <<"c","o","n","s","t","r","u","c","t","i","i",".">>

\* determine_language_from_domain testing the markers in the opposite order
determine_language_from_domain_ro_first(origin) ==
    LET origin_lower == lower(origin)
    IN  IF contains(MARKER_RO, origin_lower) THEN "RO"
        ELSE IF contains(MARKER_DE, origin_lower) THEN "DE"
        ELSE IF contains(MARKER_EN, origin_lower) THEN "EN"
        ELSE "EN"

\* determine_language_from_domain matching against the origin as given
determine_language_from_domain_case_sensitive(origin) ==
    IF contains(MARKER_EN, origin) THEN "EN"
    ELSE IF contains(MARKER_DE, origin) THEN "DE"
    ELSE IF contains(MARKER_RO, origin) THEN "RO"
    ELSE "EN"

determine_language_from_domain(origin) ==
    LET origin_lower == lower(origin)
    IN  IF contains(MARKER_EN, origin_lower) THEN "EN"
        ELSE IF contains(MARKER_DE, origin_lower) THEN "DE"
        ELSE IF contains(MARKER_RO, origin_lower) THEN "RO"
        ELSE "EN"

\* the headers without Access-Control-Allow-Methods
CORS_HEADERS_no_methods ==
    [h \in {"Content-Type", "Access-Control-Allow-Origin", "Access-Control-Allow-Headers"} |->
        CASE h = "Content-Type" -> "application/json"
          [] h = "Access-Control-Allow-Origin" -> "*"
          [] h = "Access-Control-Allow-Headers" -> "Content-Type"]

CORS_HEADERS ==
    [h \in {"Content-Type", "Access-Control-Allow-Origin",
            "Access-Control-Allow-Headers", "Access-Control-Allow-Methods"} |->
        CASE h = "Content-Type" -> "application/json"
          [] h = "Access-Control-Allow-Origin" -> "*"
          [] h = "Access-Control-Allow-Headers" -> "Content-Type"
          [] h = "Access-Control-Allow-Methods" -> "OPTIONS, POST"]

\* json.dumps: the JSON text, represented by the value it encodes
json_dumps(value) == [kind |-> "json", value |-> value]

create_cors_response(status_code, body) ==
    [statusCode |-> status_code, headers |-> CORS_HEADERS, body |-> json_dumps(body)]

----------------------------------------------------------------------------
(* JSON values and the API Gateway event *)

\* a value stored under a key of a JSON object: missing key, a string, or a
\* value that is not a string (null, number, boolean, array, object)
Absent == [kind |-> "absent", s |-> <<>>]
NonStr == [kind |-> "nonstr", s |-> <<>>]
Str(s) == [kind |-> "str", s |-> s]

FieldNames == {"contact_person", "email", "phone", "message",
               "company", "project_type", "timeline", "units_needed"}

NoFields == [k \in FieldNames |-> Absent]

JsonObject(fields) == [kind |-> "object", fields |-> fields]
\* a JSON value that is not an object (array, number, string, null)
JsonOther == [kind |-> "other", fields |-> NoFields]

\* dict.get(key, "")
dict_get(d, key) == IF d[key].kind = "absent" THEN Str(<<>>) ELSE d[key]

\* json.loads(text): the exception it raises ("" when it returns)
json_loads_exc(text) ==
    CASE text.kind = "none"    -> "TypeError"
      [] text.kind = "invalid" -> "JSONDecodeError"
      [] OTHER                 -> ""

json_loads(text) == text.value

\* event.get("body", "{}")
event_body(ev) ==
    IF ev.body.kind = "absent" THEN json_dumps(JsonObject(NoFields)) ELSE ev.body

----------------------------------------------------------------------------
(* lambdas/shared/handlers_manager.py: tables *)

messages ==
    [l \in {"EN", "DE", "RO"} |->
        CASE l = "EN" -> [success        |-> "Contact form submitted successfully!",
                          missing_fields |-> "Missing mandatory fields",
                          server_error   |-> "Internal server error"]
          [] l = "DE" -> [success        |-> "Das Kontaktformular wurde erfolgreich abgeschickt!",
                          missing_fields |-> "Pflichtfelder fehlen",
                          server_error   |-> "Serverfehler"]
          [] l = "RO" -> [success        |-> "Formularul de contact a fost trimis cu succes!",
                          missing_fields |-> "Campuri obligatorii lipsa",
                          server_error   |-> "Eroare interna"]]

\* the response messages always taken from the English table
response_msg_always_en(language) == messages["EN"]

\* messages.get(language, messages["EN"])
response_msg(language) ==
    IF language \in DOMAIN messages THEN messages[language] ELSE messages["EN"]

templates ==
    [l \in {"DE", "EN", "RO"} |->
        CASE l = "DE" -> [subject  |-> "Neue Anfrage: ",
                          greeting |-> "Neue Anfrage eingegangen:",
                          labels   |-> [company |-> "Firma", contact |-> "Kontakt Person",
                                        email |-> "Email", phone |-> "Tel.",
                                        project |-> "Projekttyp", timeline |-> "Zeitplan",
                                        units |-> "Benoetigte Einheiten",
                                        message |-> "Nachricht", timestamp |-> "Zeitstempel",
                                        not_specified |-> "Nicht angegeben"]]
          [] l = "EN" -> [subject  |-> "New inquiry: ",
                          greeting |-> "New inquiry received:",
                          labels   |-> [company |-> "Company", contact |-> "Contact Person",
                                        email |-> "Email", phone |-> "Phone",
                                        project |-> "Project Type", timeline |-> "Timeline",
                                        units |-> "Units Needed",
                                        message |-> "Message", timestamp |-> "Timestamp",
                                        not_specified |-> "Not specified"]]
          [] l = "RO" -> [subject  |-> "Cerere noua: ",
                          greeting |-> "Cerere noua primita:",
                          labels   |-> [company |-> "Companie", contact |-> "Persoana de contact",
                                        email |-> "Email", phone |-> "Telefon",
                                        project |-> "Tip proiect", timeline |-> "Termen",
                                        units |-> "Unitati necesare",
                                        message |-> "Mesaj", timestamp |-> "Marcaj temporal",
                                        not_specified |-> "Nespecificat"]]]

\* one element of body_parts: a template text (label or greeting), a value
\* taken from the submission, and the template text standing in for a value
Part(label, value, fixed) == [label |-> label, value |-> value, fixed |-> fixed]
BlankLine == Part("", <<>>, "")

\* value or l["not_specified"]
or_not_specified(value, l) ==
    IF value # <<>> THEN Part("", value, "") ELSE Part("", <<>>, l.not_specified)

Labelled(label, p) == Part(label, p.value, p.fixed)

format_email_content(bu, company, contact_person, email, phone, message, project_type, timeline, units_needed, timestamp, language) ==
    LET t == IF language \in DOMAIN templates THEN templates[language] ELSE templates["DE"]
        l == t.labels
        head == << Part(t.greeting, <<>>, ""),
                   BlankLine,
                   Part(l.company, company, ""),
                   Part(l.contact, contact_person, ""),
                   Part(l.email, email, ""),
                   Part(l.phone, phone, ""),
                   BlankLine,
                   Labelled(l.project, or_not_specified(project_type, l)),
                   Labelled(l.timeline, or_not_specified(timeline, l)) >>
        units == IF units_needed # <<>> THEN << Part(l.units, units_needed, "") >> ELSE <<>>
        tail == << BlankLine,
                   Part(l.message, <<>>, ""),
                   Part("", message, ""),
                   BlankLine,
                   Part("---", <<>>, ""),
                   Part(l.timestamp, timestamp, "") >>
    IN  [subject |-> [template |-> t.subject, business_unit |-> bu],
         body    |-> head \o units \o tail]

----------------------------------------------------------------------------
(* lambdas/construction/contact_handler_construction.py: configuration *)

business_unit == <<"c","o","n","s","t","r","u","c","t","i","o","n">>
ENVIRONMENT   == <<"d","e","v">>
FROM_EMAIL    == "FROM_EMAIL"
TO_EMAIL      == "TO_EMAIL"

----------------------------------------------------------------------------
(* Bounds of the model *)

\* number of invocations of the handler
NumInvocations == 2
\* number of distinct instants datetime.now can return
MaxClock == 2
\* lengths around max_length tried as inputs of sanitize_input
Slack == 2
\* number of fragments an origin is composed of as input of determine_language_from_domain
MaxFragments == 2

Invocations == 1..NumInvocations

DigitChars == <<"0","1","2","3","4","5","6","7","8","9">>

Fill(n) == [i \in 1..n |-> "a"]

----------------------------------------------------------------------------
(* process_contact_form_submission: helpers *)

\* str(uuid.uuid4()): distinct for distinct invocations
uuid4(i) == <<"u","u","i","d","-">> \o <<DigitChars[i + 1]>>

\* datetime.now(timezone.utc).isoformat() at instant c
isoformat(c) == <<"2","0","2","6","T","0","0",":","0">> \o <<DigitChars[c + 1]>>

\* event.get("headers", {}).get("origin", ""): the exception raised ("" if none)
origin_exc(ev) == IF ev.headers.kind = "null" THEN "AttributeError" ELSE ""

\* event.get("headers", {}).get("origin", "")
origin_of(ev) ==
    IF ev.headers.kind = "absent" THEN Str(<<>>)
    ELSE IF ev.headers.origin.kind = "absent" THEN Str(<<>>)
    ELSE ev.headers.origin

\* any([...]) in place of all([...])
all_truthy_any(values) == \E k \in DOMAIN values : values[k] # <<>>

\* lines 53-54 for an event whose origin can be read
language_of_event(ev) == determine_language_from_domain(origin_of(ev).s)

\* all([...]) over strings: every one is non-empty
all_truthy(values) == \A k \in DOMAIN values : values[k] # <<>>

MandatoryNames == {"contact_person", "email", "phone", "message"}
OptionalNames  == {"company", "project_type", "timeline", "units_needed"}

\* body.get(name, "").strip() raises AttributeError on a value that is not a string
strip_raises(body, names) == \E k \in names : dict_get(body.fields, k).kind = "nonstr"

\* lines 84-87: the four mandatory fields
mandatory_fields(body) ==
    [k \in MandatoryNames |->
        IF k = "message"
        THEN sanitize_input(strip(dict_get(body.fields, k).s), DEFAULT_MAX_LENGTH)
        ELSE strip(dict_get(body.fields, k).s)]

\* lines 94-97: the four optional fields
optional_fields(body) == [k \in OptionalNames |-> strip(dict_get(body.fields, k).s)]

Restrict(f, D) == [k \in D |-> f[k]]

\* the item written without removing the empty values
remove_empty_noop(item) == item

\* line 124: {k: v for k, v in item.items() if v}
remove_empty(item) == Restrict(item, {k \in DOMAIN item : item[k] # <<>>})

\* the sort key with its two generated parts swapped
sort_key_id_first(timestamp, contact_id) ==
    <<"C","O","N","T","A","C","T","#">> \o contact_id \o <<"#">> \o timestamp

\* the sort key without the identifier
sort_key_without_id(timestamp, contact_id) ==
    <<"C","O","N","T","A","C","T","#">> \o timestamp

\* line 106: f"CONTACT#{timestamp}#{contact_id}"
sort_key(timestamp, contact_id) ==
    <<"C","O","N","T","A","C","T","#">> \o timestamp \o <<"#">> \o contact_id

\* lines 104-124
build_item(l, origin, contact_id, timestamp) ==
    remove_empty(
        [k \in {"pk", "sk", "contact_id", "business_unit", "timestamp", "environment",
                "status", "contact_person", "email", "phone", "message", "company",
                "project_type", "timeline", "units_needed", "source_domain"} |->
            CASE k = "pk"            -> <<"B","U","#">> \o upper(business_unit)
              [] k = "sk"            -> sort_key(timestamp, contact_id)
              [] k = "contact_id"    -> contact_id
              [] k = "business_unit" -> business_unit
              [] k = "timestamp"     -> timestamp
              [] k = "environment"   -> ENVIRONMENT
              [] k = "status"        -> <<"n","e","w">>
              [] k = "source_domain" -> origin
              [] OTHER               -> l[k]])

\* table.put_item(Item=item): the item replaces any item with the same key
put_item(table, item) ==
    {r \in table : ~(r["pk"] = item["pk"] /\ r["sk"] = item["sk"])} \cup {item}

\* line 159: the subscript messages["server_error"]
server_error_defined == "server_error" \in DOMAIN messages

EmptyItem == [k \in {} |-> <<>>]

NoLocals ==
    [origin |-> <<>>, language |-> "", contact_person |-> <<>>, email |-> <<>>,
     phone |-> <<>>, message |-> <<>>, company |-> <<>>, project_type |-> <<>>,
     timeline |-> <<>>, units_needed |-> <<>>, contact_id |-> <<>>, timestamp |-> <<>>,
     item |-> EmptyItem]

\* nothing has been returned
NoResponse == [statusCode |-> 0, headers |-> [h \in {} |-> ""], body |-> json_dumps([none |-> ""])]

----------------------------------------------------------------------------
(* Events the handler is invoked with *)

ORIGIN_DE == <<"h","t","t","p","s",":","/","/">> \o MARKER_DE \o <<"x",".","c","o","m">>
ORIGIN_EN == <<"h","t","t","p","s",":","/","/","C","o","n","s","t","r","u","c","t","i","o","n",".","x">>
ORIGIN_RO == <<"h","t","t","p","s",":","/","/">> \o MARKER_RO \o <<"x">>

\* longer than max_length after trimming, with a null character in the kept prefix
LongMessage == <<" ">> \o Fill(DEFAULT_MAX_LENGTH - 1) \o <<NUL, "z", "z", "\n">>

HeaderValues ==
    { [kind |-> "absent", origin |-> Absent],
      [kind |-> "null",   origin |-> Absent] }
    \cup { [kind |-> "object", origin |-> o] :
             o \in {Absent, NonStr, Str(ORIGIN_DE), Str(ORIGIN_EN), Str(ORIGIN_RO)} }

ContactPersonValues == {Absent, NonStr, Str(<<" ">>), Str(<<" ","A","n","n","\t">>)}
EmailValues         == {Str(<<>>), Str(<<"a","@","x">>)}
PhoneValues         == {Absent, Str(<<"1">>)}
MessageValues       == {Absent, NonStr, Str(<<" ">>), Str(<<" ","h","i","\n">>),
                        Str(<<NUL>>), Str(<<NUL, " ", NUL>>), Str(LongMessage)}
CompanyValues       == {Absent, Str(<<"C","o">>)}
ProjectTypeValues   == {Str(<<" ">>), Str(<<"p">>)}
TimelineValues      == {Absent, Str(<<"t">>)}
UnitsNeededValues   == {Absent, NonStr, Str(<<"5"," ">>)}

FieldSets ==
    { [k \in FieldNames |->
          CASE k = "contact_person" -> cp
            [] k = "email"          -> em
            [] k = "phone"          -> ph
            [] k = "message"        -> ms
            [] k = "company"        -> co
            [] k = "project_type"   -> pt
            [] k = "timeline"       -> tl
            [] k = "units_needed"   -> un] :
        cp \in ContactPersonValues, em \in EmailValues, ph \in PhoneValues,
        ms \in MessageValues, co \in CompanyValues, pt \in ProjectTypeValues,
        tl \in TimelineValues, un \in UnitsNeededValues }

BodyValues ==
    { [kind |-> "absent",  value |-> JsonOther],
      [kind |-> "none",    value |-> JsonOther],
      [kind |-> "invalid", value |-> JsonOther],
      json_dumps(JsonOther) }
    \cup { json_dumps(JsonObject(f)) : f \in FieldSets }

Events == [headers : HeaderValues, body : BodyValues]

ValidFields ==
    [k \in FieldNames |->
        CASE k = "contact_person" -> Str(<<"J","a","n","e">>)
          [] k = "email"          -> Str(<<"j","@","x">>)
          [] k = "phone"          -> Str(<<"5","5","5">>)
          [] k = "message"        -> Str(<<"h","i">>)
          [] OTHER                -> Absent]

\* events of the concurrent specification
ConcEvents ==
    [headers : {[kind |-> "object", origin |-> Str(ORIGIN_DE)]},
     body    : { json_dumps(JsonObject(ValidFields)),
                 json_dumps(JsonObject([ValidFields EXCEPT !["phone"] = Str(<<" ">>)])),
                 [kind |-> "invalid", value |-> JsonOther] }]

NoEvent == [headers |-> [kind |-> "absent", origin |-> Absent],
            body    |-> [kind |-> "absent", value |-> JsonOther]]

----------------------------------------------------------------------------
(* Inputs of the helper calls *)

SanitizeInputs ==
    { lead \o Fill(n) \o mid \o tail :
        lead \in {<<>>, <<" ">>, <<NUL>>, <<"\t", NUL>>},
        n    \in {0, 1} \cup ((DEFAULT_MAX_LENGTH - Slack)..(DEFAULT_MAX_LENGTH + Slack)),
        mid  \in {<<>>, <<NUL>>, <<" ">>},
        tail \in {<<>>, <<"b">>, <<"b", "\n">>, <<NUL, " ">>} }

OriginFragments ==
    { <<>>, MARKER_EN, MARKER_DE, MARKER_RO, upper(MARKER_DE),
      <<"h","t","t","p","s",":","/","/">>, <<"c","o","n","s","t","r","u","c","t","i">>,
      <<"b","a","u">>, <<"x",".","c","o","m">> }

RECURSIVE Compose(_)
Compose(n) ==
    IF n = 0 THEN {<<>>}
    ELSE { a \o b : a \in OriginFragments, b \in Compose(n - 1) }

OriginInputs == Compose(MaxFragments)

\* events whose headers and origin can be read
ReadableEvents ==
    {e \in [headers : HeaderValues, body : {[kind |-> "absent", value |-> JsonOther]}] :
        origin_exc(e) = "" /\ origin_of(e).kind = "str"}

----------------------------------------------------------------------------
(* process_contact_form_submission, one action per step of an invocation.  *)
(* pc: "off" never invoked, "start" invoked, "try" inside the try block    *)
(* before parsing, "build" validated, "put" item built, "notify" item      *)
(* stored, "respond" notification attempted, "except" in the except        *)
(* clause, "done" a response was returned, "raised" an exception escaped.  *)

Log(i, line, detail) == logs' = [logs EXCEPT ![i] = Append(@, [line |-> line, detail |-> detail])]

\* lines 52-77: origin, language, response_msg (outside the try block)
ResolveLocale(i) ==
    /\ pc[i] = "start"
    /\ LET ev == event[i]
           origin == origin_of(ev)
       IN  IF origin_exc(ev) # "" \/ origin.kind = "nonstr"
           THEN /\ exc' = [exc EXCEPT ![i] = "AttributeError"]
                /\ pc' = [pc EXCEPT ![i] = "raised"]
                /\ UNCHANGED locals
           ELSE /\ locals' = [locals EXCEPT ![i].origin = origin.s,
                                            ![i].language = language_of_event(ev)]
                /\ pc' = [pc EXCEPT ![i] = "try"]
                /\ UNCHANGED exc
    /\ UNCHANGED <<event, response, putCalls, sesCalls, store, outbox, logs, clock>>
    /\ UNCHANGED uvars

\* lines 79-91: parse the body, extract the mandatory fields, validate
ParseAndValidate(i) ==
    /\ pc[i] = "try"
    /\ LET text == event_body(event[i])
           body == json_loads(text)
       IN  IF json_loads_exc(text) # ""
           THEN /\ exc' = [exc EXCEPT ![i] = json_loads_exc(text)]
                /\ pc' = [pc EXCEPT ![i] = "except"]
                /\ UNCHANGED <<locals, response>>
           ELSE IF body.kind # "object" \/ strip_raises(body, MandatoryNames)
           THEN /\ exc' = [exc EXCEPT ![i] = "AttributeError"]
                /\ pc' = [pc EXCEPT ![i] = "except"]
                /\ UNCHANGED <<locals, response>>
           ELSE LET m == mandatory_fields(body)
                IN  /\ locals' = [locals EXCEPT ![i].contact_person = m["contact_person"],
                                                 ![i].email = m["email"],
                                                 ![i].phone = m["phone"],
                                                 ![i].message = m["message"]]
                    /\ IF ~all_truthy(m)
                       THEN /\ response' = [response EXCEPT ![i] =
                                   create_cors_response(400,
                                       [error |-> response_msg(locals[i].language).missing_fields])]
                            /\ pc' = [pc EXCEPT ![i] = "done"]
                       ELSE /\ pc' = [pc EXCEPT ![i] = "build"]
                            /\ UNCHANGED response
                    /\ UNCHANGED exc
    /\ UNCHANGED <<event, putCalls, sesCalls, store, outbox, logs, clock>>
    /\ UNCHANGED uvars

\* lines 93-124: optional fields, identifier, timestamp, item
BuildItem(i) ==
    /\ pc[i] = "build"
    /\ LET body == json_loads(event_body(event[i]))
       IN  IF strip_raises(body, OptionalNames)
           THEN /\ exc' = [exc EXCEPT ![i] = "AttributeError"]
                /\ pc' = [pc EXCEPT ![i] = "except"]
                /\ UNCHANGED <<locals, clock>>
           ELSE \E c \in clock..MaxClock :
                LET o  == optional_fields(body)
                    l1 == [locals[i] EXCEPT !.company = o["company"],
                                            !.project_type = o["project_type"],
                                            !.timeline = o["timeline"],
                                            !.units_needed = o["units_needed"],
                                            !.contact_id = uuid4(i),
                                            !.timestamp = isoformat(c)]
                IN  /\ clock' = c
                    /\ locals' = [locals EXCEPT ![i] =
                           [l1 EXCEPT !.item = build_item(l1, l1.origin, l1.contact_id, l1.timestamp)]]
                    /\ pc' = [pc EXCEPT ![i] = "put"]
                    /\ UNCHANGED exc
    /\ UNCHANGED <<event, response, putCalls, sesCalls, store, outbox, logs>>
    /\ UNCHANGED uvars

\* lines 126-128: the write succeeds
PutItemOk(i) ==
    /\ pc[i] = "put"
    /\ putCalls' = [putCalls EXCEPT ![i] = @ + 1]
    /\ store' = put_item(store, locals[i].item)
    /\ pc' = [pc EXCEPT ![i] = "notify"]
    /\ UNCHANGED <<event, locals, response, exc, sesCalls, outbox, logs, clock>>
    /\ UNCHANGED uvars

\* lines 126-128: the write raises
PutItemRaises(i) ==
    /\ pc[i] = "put"
    /\ putCalls' = [putCalls EXCEPT ![i] = @ + 1]
    /\ exc' = [exc EXCEPT ![i] = "ClientError"]
    /\ pc' = [pc EXCEPT ![i] = "except"]
    /\ UNCHANGED <<event, locals, response, sesCalls, store, outbox, logs, clock>>
    /\ UNCHANGED uvars

EmailOf(l) ==
    LET c == format_email_content(business_unit, l.company, l.contact_person, l.email,
                                  l.phone, l.message, l.project_type, l.timeline,
                                  l.units_needed, l.timestamp, l.language)
    IN  [Source |-> FROM_EMAIL, ToAddresses |-> <<TO_EMAIL>>,
         Subject |-> c.subject, Body |-> c.body]

\* the e-mail failure propagating to the outer except clause
after_email_failure_reraise == "except"

\* the e-mail sent again after a failure
after_email_failure_retry == "notify"

\* where control goes after ses.send_email raised (lines 147-149): the inner
\* except clause swallows the exception
after_email_failure == "respond"

\* lines 130-146: format the e-mail, ses.send_email accepts it
SendEmailOk(i) ==
    /\ pc[i] = "notify"
    /\ sesCalls' = [sesCalls EXCEPT ![i] = @ + 1]
    /\ outbox' = Append(outbox, EmailOf(locals[i]))
    /\ pc' = [pc EXCEPT ![i] = "respond"]
    /\ UNCHANGED <<event, locals, response, exc, putCalls, store, logs, clock>>
    /\ UNCHANGED uvars

\* lines 130-149: format the e-mail, ses.send_email raises, the failure is printed
SendEmailRaises(i) ==
    /\ pc[i] = "notify"
    /\ sesCalls' = [sesCalls EXCEPT ![i] = @ + 1]
    /\ logs' = [logs EXCEPT ![i] =
           @ \o << [line |-> "Email failed for", detail |-> "ClientError"],
                   [line |-> "Data saved successfully to DynamoDB", detail |-> ""] >>]
    /\ pc' = [pc EXCEPT ![i] = after_email_failure]
    /\ exc' = [exc EXCEPT ![i] = IF after_email_failure = "respond" THEN @ ELSE "ClientError"]
    /\ UNCHANGED <<event, locals, response, putCalls, store, outbox, clock>>
    /\ UNCHANGED uvars

\* lines 151-155: the success response
Respond(i) ==
    /\ pc[i] = "respond"
    /\ response' = [response EXCEPT ![i] =
           create_cors_response(200,
               [message    |-> response_msg(locals[i].language).success,
                contact_id |-> locals[i].contact_id])]
    /\ pc' = [pc EXCEPT ![i] = "done"]
    /\ UNCHANGED <<event, locals, exc, putCalls, sesCalls, store, outbox, logs, clock>>
    /\ UNCHANGED uvars

\* the except clause returning the exception text to the caller
HandleException_leaks(i) ==
    /\ pc[i] = "except"
    /\ Log(i, "Error processing contact form", exc[i])
    /\ response' = [response EXCEPT ![i] = create_cors_response(500, [error |-> exc[i]])]
    /\ pc' = [pc EXCEPT ![i] = "done"]
    /\ exc' = [exc EXCEPT ![i] = ""]
    /\ UNCHANGED <<event, locals, putCalls, sesCalls, store, outbox, clock>>
    /\ UNCHANGED uvars

\* lines 157-159: print the exception, then subscript messages with "server_error"
HandleException(i) ==
    /\ pc[i] = "except"
    /\ Log(i, "Error processing contact form", exc[i])
    /\ IF server_error_defined
       THEN /\ response' = [response EXCEPT ![i] =
                   create_cors_response(500, [error |-> messages["server_error"]])]
            /\ pc' = [pc EXCEPT ![i] = "done"]
            /\ exc' = [exc EXCEPT ![i] = ""]
       ELSE /\ exc' = [exc EXCEPT ![i] = "KeyError"]
            /\ pc' = [pc EXCEPT ![i] = "raised"]
            /\ UNCHANGED response
    /\ UNCHANGED <<event, locals, putCalls, sesCalls, store, outbox, clock>>
    /\ UNCHANGED uvars

----------------------------------------------------------------------------
(* The helper call: a helper applied to one argument *)

CallSanitizeInput ==
    /\ fn = "sanitize_input"
    /\ ~called
    /\ ret' = sanitize_input(arg, DEFAULT_MAX_LENGTH)
    /\ called' = TRUE
    /\ UNCHANGED <<fn, arg>>
    /\ UNCHANGED hvars

CallDetermineLanguage ==
    /\ fn = "determine_language_from_domain"
    /\ ~called
    /\ ret' = determine_language_from_domain(arg)
    /\ called' = TRUE
    /\ UNCHANGED <<fn, arg>>
    /\ UNCHANGED hvars

\* what the handler stores as message for a body whose message is text and
\* whose other mandatory fields are valid
NotStored == [stored |-> FALSE, message |-> <<>>]

\* lines 84-128 for a body whose message is text: the message of the item put
persisted_message(text) ==
    LET body == JsonObject([ValidFields EXCEPT !["message"] = Str(text)])
        m    == mandatory_fields(body)
        item == build_item(m @@ optional_fields(body), <<>>, uuid4(1), isoformat(1))
    IN  IF all_truthy(m)
        THEN [stored |-> TRUE, message |-> item["message"]]
        ELSE NotStored

CallPersistedMessage ==
    /\ fn = "persisted_message"
    /\ ~called
    /\ ret' = persisted_message(arg)
    /\ called' = TRUE
    /\ UNCHANGED <<fn, arg>>
    /\ UNCHANGED hvars

CallLanguageOfEvent ==
    /\ fn = "language_of_event"
    /\ ~called
    /\ ret' = language_of_event(arg)
    /\ called' = TRUE
    /\ UNCHANGED <<fn, arg>>
    /\ UNCHANGED hvars

----------------------------------------------------------------------------
(* Specifications *)

HandlerIdle ==
    /\ locals = [i \in Invocations |-> NoLocals]
    /\ response = [i \in Invocations |-> NoResponse]
    /\ exc = [i \in Invocations |-> ""]
    /\ putCalls = [i \in Invocations |-> 0]
    /\ sesCalls = [i \in Invocations |-> 0]
    /\ store = {}
    /\ outbox = <<>>
    /\ logs = [i \in Invocations |-> <<>>]
    /\ clock = 1

UtilsIdle ==
    /\ fn = ""
    /\ arg = <<>>
    /\ ret = <<>>
    /\ called = FALSE

\* one invocation, any event
Init ==
    /\ HandlerIdle
    /\ UtilsIdle
    /\ pc = [i \in Invocations |-> IF i = 1 THEN "start" ELSE "off"]
    /\ \E e \in Events : event = [i \in Invocations |-> IF i = 1 THEN e ELSE NoEvent]

\* every invocation runs, concurrently with the others
InitConc ==
    /\ HandlerIdle
    /\ UtilsIdle
    /\ pc = [i \in Invocations |-> "start"]
    /\ event \in [Invocations -> ConcEvents]

InitUtils ==
    /\ HandlerIdle
    /\ pc = [i \in Invocations |-> "off"]
    /\ event = [i \in Invocations |-> NoEvent]
    /\ called = FALSE
    /\ \/ fn = "sanitize_input" /\ arg \in SanitizeInputs /\ ret = <<>>
       \/ fn = "determine_language_from_domain" /\ arg \in OriginInputs /\ ret = ""
       \/ fn = "language_of_event" /\ arg \in ReadableEvents /\ ret = ""
       \/ fn = "persisted_message" /\ arg \in SanitizeInputs /\ ret = NotStored

Next ==
    \E i \in Invocations :
        \/ ResolveLocale(i)
        \/ ParseAndValidate(i)
        \/ BuildItem(i)
        \/ PutItemOk(i)
        \/ PutItemRaises(i)
        \/ SendEmailOk(i)
        \/ SendEmailRaises(i)
        \/ Respond(i)
        \/ HandleException(i)

NextUtils ==
    CallSanitizeInput \/ CallDetermineLanguage \/ CallLanguageOfEvent \/ CallPersistedMessage

Spec == Init /\ [][Next]_vars
SpecConc == InitConc /\ [][Next]_vars
SpecUtils == InitUtils /\ [][NextUtils]_vars

----------------------------------------------------------------------------
(* Vocabulary of the properties *)

Finished(i) == pc[i] \in {"done", "raised"}

\* the outer except clause was entered
EnteredExcept(i) ==
    \E n \in DOMAIN logs[i] : logs[i][n].line = "Error processing contact form"

\* ses.send_email raised
EmailFailed(i) == \E n \in DOMAIN logs[i] : logs[i][n].line = "Email failed for"

\* the fields a request carries: those of its JSON object, else none
RequestFields(ev) ==
    IF ev.body.kind = "json" /\ ev.body.value.kind = "object"
    THEN ev.body.value.fields
    ELSE NoFields

Blank(v) == v.kind = "absent" \/ (v.kind = "str" /\ strip(v.s) = <<>>)

\* at least one mandatory field is absent or empty after trimming
MissingMandatory(ev) == \E k \in MandatoryNames : Blank(RequestFields(ev)[k])

\* all four mandatory fields are strings that are non-empty after trimming
ValidRequest(ev) ==
    \A k \in MandatoryNames :
        RequestFields(ev)[k].kind = "str" /\ strip(RequestFields(ev)[k].s) # <<>>

\* headers and origin can be read, the body is absent or a JSON object, and
\* no mandatory field holds a value that is not a string
WellFormed(ev) ==
    /\ ev.headers.kind # "null"
    /\ ev.headers.origin.kind # "nonstr"
    /\ \/ ev.body.kind = "absent"
       \/ ev.body.kind = "json" /\ ev.body.value.kind = "object"
    /\ \A k \in MandatoryNames : RequestFields(ev)[k].kind # "nonstr"

\* the parts of s between the separators "#"
RECURSIVE Components(_)
Components(s) ==
    IF \A n \in 1..Len(s) : s[n] # "#"
    THEN <<s>>
    ELSE LET n == CHOOSE m \in 1..Len(s) : s[m] = "#" /\ \A j \in 1..(m - 1) : s[j] # "#"
         IN  <<SubSeq(s, 1, n - 1)>> \o Components(SubSeq(s, n + 1, Len(s)))

\* the records of the store written by invocation i
RecordsOf(i) == {r \in store : "contact_id" \in DOMAIN r /\ r["contact_id"] = uuid4(i)}

ErrorResponse(status, text) == create_cors_response(status, [error |-> text])

----------------------------------------------------------------------------
(* Properties *)

\* C1: whenever the outer except clause was entered (the body is not valid
\* JSON, put_item raised, ...), the invocation ends by returning status 500
\* with body {"error": server_error message of the resolved locale}.
C1_ServerErrorResponse ==
    \A i \in Invocations :
        (Finished(i) /\ EnteredExcept(i)) =>
            response[i] = ErrorResponse(500, response_msg(locals[i].language).server_error)

\* C2 as stated: every request with a mandatory field absent or empty after
\* trimming ends with status 400 and the locale's missing-fields message, and
\* put_item is never called.
C2_MissingFieldsAlways400 ==
    \A i \in Invocations :
        (Finished(i) /\ MissingMandatory(event[i])) =>
            /\ response[i] = ErrorResponse(400, response_msg(locals[i].language).missing_fields)
            /\ putCalls[i] = 0

\* C2 amended: a well-formed request (headers and origin readable, body absent
\* or a JSON object, mandatory fields absent or strings) with a mandatory
\* field absent or empty after trimming ends with status 400 and the
\* missing-fields message of the resolved locale; and for every request with
\* such a field, well-formed or not, put_item is never called.
C2_MissingFields400 ==
    \A i \in Invocations :
        (pc[i] # "off" /\ MissingMandatory(event[i])) =>
            /\ putCalls[i] = 0
            /\ RecordsOf(i) = {}
            /\ (Finished(i) /\ WellFormed(event[i])) =>
                   /\ pc[i] = "done"
                   /\ response[i] = ErrorResponse(400,
                          response_msg(determine_language_from_domain(origin_of(event[i]).s)).missing_fields)

C2_Witness ==
    \E i \in Invocations :
        /\ pc[i] = "done"
        /\ WellFormed(event[i])
        /\ RequestFields(event[i])["phone"].kind = "absent"
        /\ RequestFields(event[i])["contact_person"].kind = "str"
        /\ strip(RequestFields(event[i])["contact_person"].s) # <<>>
        /\ locals[i].language = "DE"
        /\ response[i].statusCode = 400

\* C3: a valid request whose store write succeeded ends with put_item called
\* exactly once, status 200, and the contact_id of the response body equal to
\* the contact_id of the stored record and to the last of the three
\* components CONTACT, timestamp, contact_id of its sk.
C3_ValidRequestStoredOnce ==
    \A i \in Invocations :
        (Finished(i) /\ ValidRequest(event[i]) /\ RecordsOf(i) # {}) =>
            /\ putCalls[i] = 1
            /\ Cardinality(RecordsOf(i)) = 1
            /\ pc[i] = "done"
            /\ response[i].statusCode = 200
            /\ \A r \in RecordsOf(i) :
                   /\ response[i].body.value.contact_id = r["contact_id"]
                   /\ Components(r["sk"]) =
                          << <<"C","O","N","T","A","C","T">>, r["timestamp"],
                             response[i].body.value.contact_id >>

C3_Witness ==
    \E i \in Invocations :
        /\ pc[i] = "done"
        /\ ValidRequest(event[i])
        /\ putCalls[i] = 1
        /\ RecordsOf(i) # {}
        /\ response[i].statusCode = 200
        /\ ~EmailFailed(i)

\* C4: when put_item succeeded and send_email raised, the caller receives the
\* response of the successful case (status 200, the success message of the
\* resolved locale, the contact_id of the record), and the record is in the
\* store as it was written.
C4_EmailFailureKeepsSuccess ==
    \A i \in Invocations :
        EmailFailed(i) =>
            /\ locals[i].item \in store
            /\ Finished(i) =>
                   response[i] = create_cors_response(200,
                       [message    |-> response_msg(locals[i].language).success,
                        contact_id |-> locals[i].item["contact_id"]])

C4_Witness ==
    \E i \in Invocations :
        /\ pc[i] = "done"
        /\ EmailFailed(i)
        /\ sesCalls[i] = 1
        /\ outbox = <<>>
        /\ response[i].statusCode = 200
        /\ locals[i].item \in store

\* C5: every record passed to put_item has contact_person, email, phone and
\* message values that are non-empty after trimming whitespace.
C5_StoredMandatoryNonBlank ==
    \A i \in Invocations :
        putCalls[i] > 0 =>
            \A k \in MandatoryNames :
                k \in DOMAIN locals[i].item /\ strip(locals[i].item[k]) # <<>>

\* C6: no exception escapes process_contact_form_submission.
C6_NoExceptionEscapes == \A i \in Invocations : pc[i] # "raised"


AllFinished == \A i \in Invocations : Finished(i)

\* C7: every finished invocation that returned 200 has exactly one record in
\* the store and every other finished invocation has none; once all
\* invocations have finished the store holds as many records as invocations
\* returned 200; and no step removes or changes a record of the store.
C7_OneRecordPerSuccess ==
    /\ [](/\ \A i \in Invocations :
                Finished(i) =>
                    Cardinality(RecordsOf(i)) =
                        (IF response[i].statusCode = 200 THEN 1 ELSE 0)
          /\ AllFinished =>
                Cardinality(store) =
                    Cardinality({i \in Invocations : response[i].statusCode = 200}))
    /\ [][\A r \in store : r \in store']_vars

C7_Witness ==
    /\ AllFinished
    /\ \E i, j \in Invocations :
        /\ i # j
        /\ event[i] = event[j]
        /\ locals[i].timestamp = locals[j].timestamp
        /\ response[i].statusCode = 200
        /\ response[j].statusCode = 200
        /\ RecordsOf(i) # RecordsOf(j)
    /\ Cardinality(store) >= 2

\* C8: a record passed to put_item has no key with an empty value, and each of
\* company, project_type, timeline, units_needed that the request leaves
\* absent or blank after trimming is not a key of the record.
C8_SparseRecord ==
    \A i \in Invocations :
        putCalls[i] > 0 =>
            /\ \A k \in DOMAIN locals[i].item : locals[i].item[k] # <<>>
            /\ \A k \in OptionalNames :
                   Blank(RequestFields(event[i])[k]) => k \notin DOMAIN locals[i].item

C8_Witness ==
    \E i \in Invocations :
        /\ putCalls[i] = 1
        /\ locals[i].item \in store
        /\ RequestFields(event[i])["company"].kind = "absent"
        /\ RequestFields(event[i])["project_type"] = Str(<<" ">>)
        /\ RequestFields(event[i])["timeline"].kind = "str"
        /\ "company" \notin DOMAIN locals[i].item
        /\ "project_type" \notin DOMAIN locals[i].item
        /\ "timeline" \in DOMAIN locals[i].item

Has(marker) == contains(marker, lower(arg))

\* an event without an origin header resolves to EN
NoOriginIsEN ==
    (fn = "language_of_event" /\ called /\
        (arg.headers.kind = "absent" \/ arg.headers.origin.kind = "absent"))
    => ret = "EN"

\* C9 as stated: EN for an origin containing 'construction.', DE for one
\* containing 'bau.', RO for one containing 'constructii.', EN for an empty or
\* unrecognized origin; an event without an origin header resolves to EN.
C9_LanguagePerMarker ==
    /\ (fn = "determine_language_from_domain" /\ called) =>
           /\ Has(MARKER_EN) => ret = "EN"
           /\ Has(MARKER_DE) => ret = "DE"
           /\ Has(MARKER_RO) => ret = "RO"
           /\ (~Has(MARKER_EN) /\ ~Has(MARKER_DE) /\ ~Has(MARKER_RO)) => ret = "EN"
    /\ NoOriginIsEN

\* C9 amended: matching the markers in the lower-cased origin, the result is
\* EN when 'construction.' occurs, DE when 'bau.' occurs and 'construction.'
\* does not, RO when 'constructii.' occurs and neither of the other two does,
\* EN when no marker occurs (the empty origin included); an event without an
\* origin header resolves to EN.
C9_LanguageByFirstMarker ==
    /\ (fn = "determine_language_from_domain" /\ called) =>
           /\ Has(MARKER_EN) => ret = "EN"
           /\ (Has(MARKER_DE) /\ ~Has(MARKER_EN)) => ret = "DE"
           /\ (Has(MARKER_RO) /\ ~Has(MARKER_EN) /\ ~Has(MARKER_DE)) => ret = "RO"
           /\ (~Has(MARKER_EN) /\ ~Has(MARKER_DE) /\ ~Has(MARKER_RO)) => ret = "EN"
    /\ NoOriginIsEN

C9_Witness ==
    /\ fn = "determine_language_from_domain"
    /\ called
    /\ Has(MARKER_DE)
    /\ Has(MARKER_RO)
    /\ ~Has(MARKER_EN)
    /\ arg # lower(arg)
    /\ ret = "DE"

\* C10 as stated: for an input whose trimmed length exceeds max_length the
\* result is the first max_length characters of the trimmed input followed
\* by the marker '...'.
C10_TruncatedPrefixAndMarker ==
    (fn = "sanitize_input" /\ called /\ Len(strip(arg)) > DEFAULT_MAX_LENGTH) =>
        ret = slice_to(strip(arg), DEFAULT_MAX_LENGTH) \o TRUNCATION_MARKER

\* C10 amended: for an input whose trimmed length exceeds max_length the
\* result is the first max_length characters of the trimmed input with their
\* null characters removed, followed by the marker '...'.
C10_TruncatedPrefixWithoutNulls ==
    (fn = "sanitize_input" /\ called /\ Len(strip(arg)) > DEFAULT_MAX_LENGTH) =>
        ret = remove_char(slice_to(strip(arg), DEFAULT_MAX_LENGTH), NUL) \o TRUNCATION_MARKER

C10_Witness ==
    /\ fn = "sanitize_input"
    /\ called
    /\ Len(strip(arg)) > DEFAULT_MAX_LENGTH
    /\ \E n \in 1..DEFAULT_MAX_LENGTH : strip(arg)[n] = NUL
    /\ Len(ret) = DEFAULT_MAX_LENGTH + 2
    /\ SubSeq(ret, Len(ret) - 2, Len(ret)) = TRUNCATION_MARKER


\* C11: on an input whose trimmed length is within max_length and that holds
\* no null character, applying sanitize_input to its own result changes
\* nothing.
C11_SanitizeIdempotent ==
    (fn = "sanitize_input" /\ called /\ Len(strip(arg)) <= DEFAULT_MAX_LENGTH
        /\ \A n \in 1..Len(arg) : arg[n] # NUL)
    => sanitize_input(ret, DEFAULT_MAX_LENGTH) = ret

C11_Witness ==
    /\ fn = "sanitize_input"
    /\ called
    /\ Len(strip(arg)) = DEFAULT_MAX_LENGTH
    /\ \A n \in 1..Len(arg) : arg[n] # NUL
    /\ ret # arg
    /\ Len(ret) = DEFAULT_MAX_LENGTH

\* C12: the result of sanitize_input holds no null character, truncated or
\* not, and neither does the message of an item the handler puts.
C12_NoNullInOutput ==
    /\ (fn = "sanitize_input" /\ called) => \A n \in 1..Len(ret) : ret[n] # NUL
    /\ (fn = "persisted_message" /\ called /\ ret.stored) =>
           \A n \in 1..Len(ret.message) : ret.message[n] # NUL

C12_Witness ==
    /\ fn = "persisted_message"
    /\ called
    /\ ret.stored
    /\ Len(strip(arg)) > DEFAULT_MAX_LENGTH
    /\ \E n \in 1..DEFAULT_MAX_LENGTH : strip(arg)[n] = NUL
    /\ \E n \in (DEFAULT_MAX_LENGTH + 1)..Len(strip(arg)) : strip(arg)[n] = NUL
    /\ Len(ret.message) > 0

\* C20: the result of sanitize_input is at most max_length + 3 characters
\* long, and so is the message of an item the handler puts.
C20_OutputLengthBound ==
    /\ (fn = "sanitize_input" /\ called) =>
           Len(ret) <= DEFAULT_MAX_LENGTH + Len(TRUNCATION_MARKER)
    /\ (fn = "persisted_message" /\ called /\ ret.stored) =>
           Len(ret.message) <= DEFAULT_MAX_LENGTH + Len(TRUNCATION_MARKER)

C20_Witness ==
    /\ fn = "persisted_message"
    /\ called
    /\ ret.stored
    /\ Len(strip(arg)) > DEFAULT_MAX_LENGTH + 1
    /\ Len(ret.message) = DEFAULT_MAX_LENGTH + 3


ExpectedHeaders ==
    ("Content-Type" :> "application/json")
    @@ ("Access-Control-Allow-Origin" :> "*")
    @@ ("Access-Control-Allow-Headers" :> "Content-Type")
    @@ ("Access-Control-Allow-Methods" :> "OPTIONS, POST")

Validated(i) == \A k \in MandatoryNames : locals[i][k] # <<>>

\* put_item was called by invocation i and raised
PutFailed(i) == putCalls[i] > 0 /\ pc[i] # "put" /\ locals[i].item \notin store

\* C14: put_item is called only once the four mandatory fields have passed
\* validation; send_email is called only after put_item returned without
\* error; the success response follows the notification attempt; and when
\* put_item raises, send_email is never called and no success is returned.
C14_StepOrder ==
    \A i \in Invocations :
        /\ putCalls[i] > 0 => Validated(i)
        /\ pc[i] \in {"put", "notify", "respond"} => Validated(i)
        /\ sesCalls[i] > 0 => (putCalls[i] > 0 /\ locals[i].item \in store)
        /\ response[i].statusCode = 200 => (sesCalls[i] > 0 /\ putCalls[i] > 0)
        /\ PutFailed(i) =>
               /\ sesCalls[i] = 0
               /\ pc[i] \in {"except", "raised", "done"}
               /\ response[i].statusCode # 200

C14_Witness ==
    \E i \in Invocations :
        /\ Finished(i)
        /\ PutFailed(i)
        /\ Validated(i)
        /\ sesCalls[i] = 0
        /\ outbox = <<>>

\* C15: an invocation calls put_item at most once and send_email at most
\* once, whether the call fails or not.
C15_AtMostOneCallEach ==
    \A i \in Invocations : putCalls[i] <= 1 /\ sesCalls[i] <= 1

C15_Witness ==
    \E i \in Invocations :
        /\ Finished(i)
        /\ EmailFailed(i)
        /\ putCalls[i] = 1
        /\ sesCalls[i] = 1
        /\ Cardinality(RecordsOf(i)) = 1

\* the notification of invocation i is written with the template of language l
NotifiedIn(i, l) ==
    LET e == EmailOf(locals[i])
        t == templates[l]
    IN  /\ e.Subject.template = t.subject
        /\ e.Body[1].label = t.greeting
        /\ e.Body[3].label = t.labels.company
        /\ e.Body[4].label = t.labels.contact
        /\ e.Body[5].label = t.labels.email
        /\ e.Body[6].label = t.labels.phone
        /\ e.Body[8].label = t.labels.project
        /\ e.Body[9].label = t.labels.timeline
        /\ e.Body[Len(e.Body)].label = t.labels.timestamp

\* C16: the notification handed to send_email and the response returned to
\* the caller are written in one and the same language.
C16_OneLocale ==
    /\ \A i \in Invocations :
           (sesCalls[i] > 0 /\ pc[i] = "done") =>
               \E l \in {"EN", "DE", "RO"} :
                   /\ NotifiedIn(i, l)
                   /\ response[i].body.value.message = messages[l].success
    /\ \A n \in DOMAIN outbox : \E i \in Invocations : outbox[n] = EmailOf(locals[i])

C16_Witness ==
    \E i \in Invocations :
        /\ pc[i] = "done"
        /\ sesCalls[i] = 1
        /\ outbox # <<>>
        /\ NotifiedIn(i, "DE")
        /\ response[i].body.value.message = messages["DE"].success

\* the element of the notification body carrying the given label
PartWith(i, label) ==
    LET b == EmailOf(locals[i]).Body
    IN  {b[n] : n \in {m \in DOMAIN b : b[m].label = label}}

LabelsOf(i) == templates[locals[i].language].labels

\* C17: in the notification body each of company, project type and timeline
\* that the submitter left unspecified shows the locale's "not specified"
\* placeholder, and the units-needed line is present exactly when the field
\* is not empty.
C17_PlaceholderForUnspecified ==
    \A i \in Invocations :
        sesCalls[i] > 0 =>
            /\ \A f \in {"company", "project_type", "timeline"} :
                   locals[i][f] = <<>> =>
                       \A p \in PartWith(i, LabelsOf(i)[IF f = "project_type" THEN "project" ELSE f]) :
                           p.fixed = LabelsOf(i).not_specified
            /\ (PartWith(i, LabelsOf(i).units) # {}) <=> (locals[i].units_needed # <<>>)

ExceptionTexts == {"AttributeError", "TypeError", "JSONDecodeError", "ClientError", "KeyError"}

MarkerOrder ==
    << [marker |-> MARKER_EN, lang |-> "EN"],
       [marker |-> MARKER_DE, lang |-> "DE"],
       [marker |-> MARKER_RO, lang |-> "RO"] >>

Matching == {n \in DOMAIN MarkerOrder : Has(MarkerOrder[n].marker)}

\* C18: when more than one marker is a substring of the lower-cased origin,
\* the result is the language of the first of them in the order
\* 'construction.', 'bau.', 'constructii.'.
C18_FirstMarkerWins ==
    (fn = "determine_language_from_domain" /\ called /\ Cardinality(Matching) >= 2) =>
        ret = MarkerOrder[CHOOSE n \in Matching : \A m \in Matching : n <= m].lang

C18_Witness ==
    /\ fn = "determine_language_from_domain"
    /\ called
    /\ Matching = {1, 2}
    /\ ~contains(MARKER_DE, arg)
    /\ ret = "EN"

====
